---- MODULE Spec2Model ----
(***************************************************************************)
(* Model of the adaptive chunking pipeline of the knowledge-mining agent   *)
(* (src/agents/data_preprocessing.py, class BusinessContentPreprocessor).  *)
(*                                                                         *)
(* A text is a sequence of one-character strings.  The characters are:     *)
(*   "a" "b"   ordinary letters (\w)                                       *)
(*   "U"       a letter (\w) that the byte-level BPE vocabularies encode   *)
(*             as two tokens (a rare non-ASCII letter)                     *)
(*   " " "\n"  whitespace (\s)                                             *)
(*   "."       sentence punctuation, kept by the normalizer                *)
(*   "#" "'"   symbols the normalizer strips                               *)
(*   "h" "H"   stand for the intro literal "welcome back" (any case)       *)
(*   "t"       stands for the intro literal "today"                        *)
(*   "g"       with a preceding "'" stands for "I'm going to"              *)
(*   "s" "S"   stand for the outro literal "subscribe" (any case)          *)
(*   "?"       U+FFFD, produced when a token window cuts "U" in two        *)
(*   "y"       stands for a four-digit year such as "2012" (\w): one token *)
(*             of the gpt2 vocabulary, two tokens ("201", "2") of           *)
(*             cl100k_base, which cuts digits into groups of at most three *)
(***************************************************************************)
EXTENDS Integers, Sequences, FiniteSets, TLC

VARIABLES
    pc,               \* "new", "ready", "rejected" (__init__ raised), "done",
                      \* "hung" (the call does not return)
    preprocessor,     \* the fields of the BusinessContentPreprocessor
    arg_text,         \* the arguments of the call of preprocess_transcript
    arg_metadata,
    documents,        \* the list preprocess_transcript returned
    norm_text,        \* the text after Step 0
    enforced_chunks,  \* the chunks after Step 2
    max_depth,        \* the deepest depth _ensure_chunk_sizes was called with
    semantic,         \* Step 3: "skipped", "raised" or "ok"
    normIn, normOut, normPc,  \* the normalizer alone: input, output, stage
    rag_pc,           \* BaselineRAGAgent: "new", "ready", "failed" (__init__ raised)
    vector_store,     \* self.vector_store: None, or the documents of the collection
    agent,            \* self.agent: "None" or "AgentExecutor"
    load_completed,   \* a call of load_documents has returned
    init_completed,   \* a call of initialize_agent has returned
    rag_call,         \* the last call on the agent and how it ended
    retrieval,        \* what _retrieve_context did in the last call, if it ran
    transcripts,      \* the argument of preprocess_batch
    batch_pc,         \* preprocess_batch: "idle", "call", "returned", "raised"
    all_documents,    \* the list preprocess_batch returned
    dropped,          \* the candidates the enforcer discarded during the batch
    chunker,          \* what the (deterministic) semantic chunker does when called
    th_pc,            \* per worker thread: its position in preprocess_transcript
    th_local,         \* per worker thread: its local variables
    db_connection,    \* DatabaseConnection.connection: "None", "open" or "closed"
    db_sessions,      \* sessions on the server opened by the object and not closed
    db_call,          \* the last call on the DatabaseConnection and how it ended
    db_calls          \* the number of calls made on the DatabaseConnection

pvars == <<pc, preprocessor, arg_text, arg_metadata, documents, norm_text,
           enforced_chunks, max_depth, semantic>>

nvars == <<normIn, normOut, normPc>>

rvars == <<rag_pc, vector_store, agent, load_completed, init_completed, rag_call,
           retrieval>>

bvars == <<transcripts, batch_pc, all_documents, dropped, chunker, th_pc, th_local>>

dvars == <<db_connection, db_sessions, db_call, db_calls>>

vars == <<pvars, nvars, rvars, bvars, dvars>>

(***************************************************************************)
(* Bounds                                                                  *)
(***************************************************************************)
MaxRunLen == 9
MaxNormLen == 4
MaxTodayLen == 4
MaxTextLen == 3
MaxWideLen == 1
MaxYearLen == 2
MaxPlainLen == 5
MaxSentences == 3
MaxTopK == 2
MaxBatch == 2
MaxDbCalls == 5
MaxSize == 2
MaxBreak == 1

(***************************************************************************)
(* Characters and generic sequence helpers                                 *)
(***************************************************************************)
NL == "\n"

SpaceChars == {" ", NL}

WordChars == {"a", "b", "U", "y", "h", "H", "t", "g", "s", "S"}

\* the characters of the class [\w\s.,!?-]
KeptChars == WordChars \cup SpaceChars \cup {".", ",", "!", "?", "-"}

SentenceEnds == {".", "!", "?"}

IsSpace(c) == c \in SpaceChars

IsWord(c) == c \in WordChars

Lower(c) == CASE c = "H" -> "h" [] c = "S" -> "s" [] OTHER -> c

Slice(s, i, j) == IF i > j THEN <<>> ELSE SubSeq(s, i, j)

\* s[i..] starts with lit (re.IGNORECASE when ci)
MatchAt(s, i, lit, ci) ==
    /\ i + Len(lit) - 1 <= Len(s)
    /\ \A k \in 1..Len(lit) :
          IF ci THEN Lower(s[i + k - 1]) = Lower(lit[k]) ELSE s[i + k - 1] = lit[k]

SeqsUpTo(S, n) == UNION {[1..k -> S] : k \in 0..n}

RECURSIVE Filter(_, _)
Filter(s, K) ==
    IF s = <<>> THEN <<>>
    ELSE (IF Head(s) \in K THEN <<Head(s)>> ELSE <<>>) \o Filter(Tail(s), K)

RECURSIVE LStrip(_)
LStrip(s) == IF s # <<>> /\ IsSpace(Head(s)) THEN LStrip(Tail(s)) ELSE s

RECURSIVE RStrip(_)
RStrip(s) ==
    IF s # <<>> /\ IsSpace(s[Len(s)]) THEN RStrip(SubSeq(s, 1, Len(s) - 1)) ELSE s

\* str.strip()
Strip(s) == RStrip(LStrip(s))

(***************************************************************************)
(* _preprocess_text                                                        *)
(***************************************************************************)
\* re.sub(r'[^\w\s.,!?-]', '', text)
RemoveSymbols(s) == Filter(s, KeptChars)

\* re.sub(r'\s+', ' ', text)
RECURSIVE CollapseSpaces(_)
CollapseSpaces(s) ==
    IF s = <<>> THEN <<>>
    ELSE IF IsSpace(Head(s))
         THEN <<" ">> \o CollapseSpaces(LStrip(s))
         ELSE <<Head(s)>> \o CollapseSpaces(Tail(s))

\* last index of the run of characters of K that starts at i (i-1 if none)
RECURSIVE RunEnd(_, _, _)
RunEnd(s, i, K) ==
    IF i <= Len(s) /\ s[i] \in K THEN RunEnd(s, i + 1, K) ELSE i - 1

\* last index of the copies of w that start at i (i-1 if none): \1+
RECURSIVE CopiesEnd(_, _, _)
CopiesEnd(s, i, w) ==
    IF MatchAt(s, i, w, FALSE) THEN CopiesEnd(s, i + Len(w), w) ELSE i - 1

\* end index of a match of \b(\w+)\s+\1\s+\1+\b starting at i, 0 if none
RepeatMatchEnd(s, i) ==
    IF ~(IsWord(s[i]) /\ (i = 1 \/ ~IsWord(s[i - 1]))) THEN 0
    ELSE LET e1 == RunEnd(s, i, WordChars)
             w  == SubSeq(s, i, e1)
             g1 == RunEnd(s, e1 + 1, SpaceChars)
         IN IF g1 = e1 \/ ~MatchAt(s, g1 + 1, w, FALSE) THEN 0
            ELSE LET e2 == g1 + Len(w)
                     g2 == RunEnd(s, e2 + 1, SpaceChars)
                     e3 == CopiesEnd(s, g2 + 1, w)
                 IN IF g2 = e2 \/ e3 = g2 THEN 0
                    ELSE IF e3 < Len(s) /\ IsWord(s[e3 + 1]) THEN 0
                    ELSE e3

\* the replacement r'\1' of a matched repetition of the word w
Replacement(w) == w

\* re.sub(r'\b(\w+)\s+\1\s+\1+\b', r'\1', text): leftmost matches, left to right
RECURSIVE CollapseRepeatsFrom(_, _)
CollapseRepeatsFrom(s, i) ==
    IF i > Len(s) THEN <<>>
    ELSE LET e == RepeatMatchEnd(s, i)
         IN IF e = 0 THEN <<s[i]>> \o CollapseRepeatsFrom(s, i + 1)
            ELSE Replacement(SubSeq(s, i, RunEnd(s, i, WordChars)))
                    \o CollapseRepeatsFrom(s, e + 1)

CollapseRepeats(s) == CollapseRepeatsFrom(s, 1)

\* the literals of intro_patterns[0], intro_patterns[1] and outro_patterns[0]
IntroLits == {<<"h">>}
TodayLit == <<"t">>
GoingLits == {<<"'", "g">>}
OutroLits == {<<"s">>}

\* first index >= i whose character is in K, 0 if none
RECURSIVE FirstAt(_, _, _)
FirstAt(s, i, K) ==
    IF i > Len(s) THEN 0 ELSE IF s[i] \in K THEN i ELSE FirstAt(s, i + 1, K)

\* re.sub(r'^(welcome back|...).*?(?=[\.!?])', '', text, IGNORECASE | MULTILINE)
RemoveIntro1(s) ==
    IF \E lit \in IntroLits : MatchAt(s, 1, lit, TRUE)
    THEN LET lit == CHOOSE l \in IntroLits : MatchAt(s, 1, l, TRUE)
             p   == FirstAt(s, Len(lit) + 1, SentenceEnds)
         IN IF p = 0 THEN s ELSE Slice(s, p, Len(s))
    ELSE s

\* first index >= i where one of lits starts, 0 if none
RECURSIVE FirstLitAt(_, _, _)
FirstLitAt(s, i, lits) ==
    IF i > Len(s) THEN 0
    ELSE IF \E lit \in lits : MatchAt(s, i, lit, TRUE) THEN i
    ELSE FirstLitAt(s, i + 1, lits)

\* re.sub(r'^(today.*?(?=we\'re going to|I\'m going to|let\'s talk about))', '', ...)
RemoveIntro2(s) ==
    IF MatchAt(s, 1, TodayLit, TRUE)
    THEN LET p == FirstLitAt(s, Len(TodayLit) + 1, GoingLits)
         IN IF p = 0 THEN s ELSE Slice(s, p, Len(s))
    ELSE s

\* re.sub(r'(thanks for watching|subscribe|...).*$', '', text, IGNORECASE | MULTILINE)
RemoveOutro(s) ==
    LET p == FirstLitAt(s, 1, OutroLits)
    IN IF p = 0 THEN s ELSE Slice(s, 1, p - 1)

preprocess_text(text) ==
    LET t1 == RemoveSymbols(text)
        t2 == Strip(CollapseSpaces(t1))
        t3 == CollapseRepeats(t2)
        t4 == RemoveIntro2(RemoveIntro1(t3))
        t5 == RemoveOutro(t4)
    IN Strip(t5)

(***************************************************************************)
(* Tokenizers.  A token is a sequence of characters; the letter "U" is     *)
(* encoded byte-wise as the two tokens <<"U1">> and <<"U2">>, and a space  *)
(* is merged into the token of the ordinary letter that follows it.  The   *)
(* year "y" is one token of gpt2 (with the space before it, if any) and    *)
(* the two tokens <<"y1">>, <<"y2">> of cl100k_base.                       *)
(***************************************************************************)
PlainLetters == WordChars \ {"U", "y"}

\* encoding.encode(text); mergeNL: the vocabulary is cl100k_base, which has a
\* token for "\n\n" and cuts a year in two; otherwise it is gpt2
RECURSIVE Encode(_, _)
Encode(s, mergeNL) ==
    IF s = <<>> THEN <<>>
    ELSE IF Head(s) = "U"
         THEN <<(<<"U1">>), (<<"U2">>)>> \o Encode(Tail(s), mergeNL)
    ELSE IF mergeNL /\ Head(s) = "y"
         THEN <<(<<"y1">>), (<<"y2">>)>> \o Encode(Tail(s), mergeNL)
    ELSE IF ~mergeNL /\ Len(s) >= 2 /\ s[1] = " " /\ s[2] = "y"
         THEN <<SubSeq(s, 1, 2)>> \o Encode(SubSeq(s, 3, Len(s)), mergeNL)
    ELSE IF Len(s) >= 2 /\ s[1] = " " /\ s[2] \in PlainLetters
         THEN <<SubSeq(s, 1, 2)>> \o Encode(SubSeq(s, 3, Len(s)), mergeNL)
    ELSE IF mergeNL /\ Len(s) >= 2 /\ s[1] = NL /\ s[2] = NL
         THEN <<SubSeq(s, 1, 2)>> \o Encode(SubSeq(s, 3, Len(s)), mergeNL)
    ELSE <<(<<Head(s)>>)>> \o Encode(Tail(s), mergeNL)

\* tiktoken.get_encoding("cl100k_base").encode
Cl100kEncode(s) == Encode(s, TRUE)

\* the encoding of TokenTextSplitter (encoding_name defaults to "gpt2")
Gpt2Encode(s) == Encode(s, FALSE)

RECURSIVE Flatten(_)
Flatten(ss) == IF ss = <<>> THEN <<>> ELSE Head(ss) \o Flatten(Tail(ss))

\* bytes.decode("utf-8", errors="replace"): an incomplete "U" becomes U+FFFD
RECURSIVE DecodeBytes(_)
DecodeBytes(b) ==
    IF b = <<>> THEN <<>>
    ELSE IF Len(b) >= 2 /\ b[1] = "U1" /\ b[2] = "U2"
         THEN <<"U">> \o DecodeBytes(SubSeq(b, 3, Len(b)))
    ELSE IF Head(b) \in {"U1", "U2"} THEN <<"?">> \o DecodeBytes(Tail(b))
    ELSE <<Head(b)>> \o DecodeBytes(Tail(b))

\* encoding.decode(ids)
Decode(toks) == DecodeBytes(Flatten(toks))

\* _count_tokens
count_tokens(text) == Len(Cl100kEncode(text))

\* _tokens_to_chars
tokens_to_chars(tokens) == tokens * 4

(***************************************************************************)
(* RecursiveCharacterTextSplitter(chunk_size, chunk_overlap, separators,   *)
(* length_function=_count_tokens), keep_separator=True                     *)
(***************************************************************************)
Separators == <<(<<NL, NL>>), (<<NL>>), (<<".">>), (<<" ">>), (<<>>)>>

\* s contains sep somewhere
Contains(s, sep) == \E i \in 1..Len(s) : MatchAt(s, i, sep, FALSE)

\* _split_text_with_regex(text, separator, keep_separator=True) for a
\* non-empty separator: every piece but the first starts with the separator
RECURSIVE SplitKeepFrom(_, _, _, _)
SplitKeepFrom(s, sep, i, cur) ==
    IF i > Len(s) THEN (IF cur = <<>> THEN <<>> ELSE <<cur>>)
    ELSE IF MatchAt(s, i, sep, FALSE)
         THEN (IF cur = <<>> THEN <<>> ELSE <<cur>>)
                 \o SplitKeepFrom(s, sep, i + Len(sep), sep)
    ELSE SplitKeepFrom(s, sep, i + 1, Append(cur, s[i]))

\* _split_text_with_regex: list(text) for the empty separator
SplitWithRegex(s, sep) ==
    IF sep = <<>> THEN [i \in 1..Len(s) |-> <<s[i]>>]
    ELSE SplitKeepFrom(s, sep, 1, <<>>)

\* _join_docs(docs, "") appended to out unless it is empty after strip()
AppendJoined(out, docs) ==
    LET text == Strip(Flatten(docs))
    IN IF text = <<>> THEN out ELSE Append(out, text)

\* the while loop of _merge_splits: drop leading pieces of current_doc
RECURSIVE PopOverlap(_, _, _, _, _)
PopOverlap(cur, total, len, csize, cover) ==
    IF total > cover \/ (total + len > csize /\ total > 0)
    THEN PopOverlap(Tail(cur), total - count_tokens(Head(cur)), len, csize, cover)
    ELSE [cur |-> cur, total |-> total]

\* _merge_splits(splits, separator="") from split number i on
RECURSIVE MergeFrom(_, _, _, _, _, _, _)
MergeFrom(splits, i, docs, cur, total, csize, cover) ==
    IF i > Len(splits) THEN AppendJoined(docs, cur)
    ELSE LET d   == splits[i]
             len == count_tokens(d)
         IN IF total + len > csize /\ cur # <<>>
            THEN LET p == PopOverlap(cur, total, len, csize, cover)
                 IN MergeFrom(splits, i + 1, AppendJoined(docs, cur),
                              Append(p.cur, d), p.total + len, csize, cover)
            ELSE MergeFrom(splits, i + 1, docs, Append(cur, d), total + len,
                           csize, cover)

MergeSplits(splits, csize, cover) == MergeFrom(splits, 1, <<>>, <<>>, 0, csize, cover)

\* index of the separator _split_text picks: the first one found in the text,
\* the empty separator otherwise
RECURSIVE PickSeparator(_, _, _)
PickSeparator(s, seps, i) ==
    IF i >= Len(seps) \/ seps[i] = <<>> \/ Contains(s, seps[i]) THEN i
    ELSE PickSeparator(s, seps, i + 1)

RECURSIVE SplitText(_, _, _, _)
RECURSIVE SplitLoop(_, _, _, _, _, _)

\* the for loop of _split_text over the splits, from split number i on
SplitLoop(splits, i, good, rest, csize, cover) ==
    IF i > Len(splits)
    THEN (IF good = <<>> THEN <<>> ELSE MergeSplits(good, csize, cover))
    ELSE IF count_tokens(splits[i]) < csize
         THEN SplitLoop(splits, i + 1, Append(good, splits[i]), rest, csize, cover)
    ELSE (IF good = <<>> THEN <<>> ELSE MergeSplits(good, csize, cover))
            \o (IF rest = <<>> THEN <<splits[i]>>
                ELSE SplitText(splits[i], rest, csize, cover))
            \o SplitLoop(splits, i + 1, <<>>, rest, csize, cover)

\* RecursiveCharacterTextSplitter._split_text(text, separators)
SplitText(s, seps, csize, cover) ==
    LET k    == PickSeparator(s, seps, 1)
        sep  == seps[k]
        rest == IF sep = <<>> THEN <<>> ELSE SubSeq(seps, k + 1, Len(seps))
    IN SplitLoop(SplitWithRegex(s, sep), 1, <<>>, rest, csize, cover)

\* self.recursive_splitter.split_text(text)
split_text(self, text) ==
    SplitText(text, Separators, tokens_to_chars(self.max_chunk_size),
              tokens_to_chars(self.chunk_overlap))

(***************************************************************************)
(* _ensure_chunk_sizes                                                     *)
(***************************************************************************)
DepthCap == 10

\* the two halves chunk[:mid], chunk[mid:] with mid = len(chunk) // 2
ForcedSplit(chunk) ==
    LET mid == Len(chunk) \div 2
    IN <<Slice(chunk, 1, mid), Slice(chunk, mid + 1, Len(chunk))>>

\* sub_chunks of an oversized chunk
SubChunks(self, chunk) ==
    LET sub_chunks == split_text(self, chunk)
    IN IF Len(sub_chunks) = 1 /\ sub_chunks[1] = chunk
       THEN ForcedSplit(chunk)
       ELSE sub_chunks

RECURSIVE ensure_chunk_sizes(_, _, _)
RECURSIVE EnsureLoop(_, _, _, _)

\* the for loop of _ensure_chunk_sizes from chunk number i on
EnsureLoop(self, chunks, i, depth) ==
    IF i > Len(chunks) THEN <<>>
    ELSE LET chunk       == chunks[i]
             token_count == count_tokens(chunk)
         IN (IF token_count >= self.min_chunk_size
             THEN IF token_count > self.max_chunk_size
                  THEN ensure_chunk_sizes(self, SubChunks(self, chunk), depth + 1)
                  ELSE <<chunk>>
             ELSE <<>>)
            \o EnsureLoop(self, chunks, i + 1, depth)

ensure_chunk_sizes(self, chunks, depth) ==
    IF depth > DepthCap THEN chunks ELSE EnsureLoop(self, chunks, 1, depth)

\* the deepest value of depth among the calls that
\* _ensure_chunk_sizes(chunks, depth) makes, itself included
RECURSIVE EnsureDepth(_, _, _)
EnsureDepth(self, chunks, depth) ==
    IF depth > DepthCap THEN depth
    ELSE LET over == {i \in 1..Len(chunks) :
                        /\ count_tokens(chunks[i]) >= self.min_chunk_size
                        /\ count_tokens(chunks[i]) > self.max_chunk_size}
             below == {EnsureDepth(self, SubChunks(self, chunks[i]), depth + 1) :
                         i \in over}
         IN IF over = {} THEN depth ELSE CHOOSE d \in below : \A e \in below : e <= d

(***************************************************************************)
(* SemanticChunker.split_text: sentences are cut at whitespace that        *)
(* follows a sentence end, and groups of consecutive sentences are joined  *)
(* with one space; where the groups are cut depends on embedding distances *)
(* and is an input (breaks: the sentences after which a group ends).       *)
(***************************************************************************)
\* re.split(r"(?<=[.?!])\s+", text) from index i on, cur the piece so far
RECURSIVE SentencesFrom(_, _, _)
SentencesFrom(s, i, cur) ==
    IF i > Len(s) THEN <<cur>>
    ELSE IF i > 1 /\ s[i - 1] \in SentenceEnds /\ IsSpace(s[i])
         THEN <<cur>> \o SentencesFrom(s, RunEnd(s, i, SpaceChars) + 1, <<>>)
    ELSE SentencesFrom(s, i + 1, Append(cur, s[i]))

\* " ".join(group)
RECURSIVE JoinSpace(_)
JoinSpace(ss) ==
    IF ss = <<>> THEN <<>>
    ELSE IF Len(ss) = 1 THEN ss[1]
    ELSE ss[1] \o <<" ">> \o JoinSpace(Tail(ss))

\* the chunks built from sentence number i on, start the first sentence of
\* the group being built
RECURSIVE GroupsFrom(_, _, _, _)
GroupsFrom(sentences, breaks, start, i) ==
    IF i >= Len(sentences) THEN <<JoinSpace(SubSeq(sentences, start, Len(sentences)))>>
    ELSE IF i \in breaks
         THEN <<JoinSpace(SubSeq(sentences, start, i))>>
                 \o GroupsFrom(sentences, breaks, i + 1, i + 1)
    ELSE GroupsFrom(sentences, breaks, start, i + 1)

semantic_split_text(text, breaks) ==
    LET sentences == SentencesFrom(text, 1, <<>>)
    IN IF Len(sentences) = 1 THEN sentences
       ELSE GroupsFrom(sentences, breaks, 1, 1)

\* "\n\n".join(chunks)
RECURSIVE JoinParagraphs(_)
JoinParagraphs(chunks) ==
    IF chunks = <<>> THEN <<>>
    ELSE IF Len(chunks) = 1 THEN chunks[1]
    ELSE chunks[1] \o <<NL, NL>> \o JoinParagraphs(Tail(chunks))

(***************************************************************************)
(* TokenTextSplitter(chunk_size=parent_chunk_size, chunk_overlap)          *)
(***************************************************************************)
\* self.parent_chunk_size: 2000 tokens in the source, scaled to the length of
\* the texts of the model
ParentChunkSize == 3

Min(a, b) == IF a < b THEN a ELSE b

\* split_text_on_tokens: the windows from token number start on
RECURSIVE TokenWindows(_, _, _, _)
TokenWindows(ids, start, size, overlap) ==
    IF start > Len(ids) THEN <<>>
    ELSE LET cur == Min(start + size - 1, Len(ids))
         IN <<Decode(SubSeq(ids, start, cur))>>
               \o (IF cur = Len(ids) THEN <<>>
                   ELSE TokenWindows(ids, start + size - overlap, size, overlap))

\* split_text_on_tokens never leaves its loop: more than one window is needed
\* and start_idx does not advance (chunk_overlap = parent_chunk_size, which
\* __init__ accepts only when max_chunk_size >= parent_chunk_size)
ParentSplitHangs(self, text) ==
    self.chunk_overlap >= ParentChunkSize /\ Len(Gpt2Encode(text)) > ParentChunkSize

\* self.parent_splitter.split_text(text)
parent_split_text(self, text) ==
    TokenWindows(Gpt2Encode(text), 1, ParentChunkSize, self.chunk_overlap)

(***************************************************************************)
(* preprocess_transcript                                                   *)
(***************************************************************************)
\* Update in which a key that md already has keeps its value
UpdateKeepsOld(md, upd) ==
    [k \in DOMAIN md \cup DOMAIN upd |-> IF k \in DOMAIN md THEN md[k] ELSE upd[k]]

\* dict.update: the keys of upd override those of md
Update(md, upd) ==
    [k \in DOMAIN md \cup DOMAIN upd |-> IF k \in DOMAIN upd THEN upd[k] ELSE md[k]]

\* Step 3 is entered
RefinementRuns(self, chunks) ==
    self.use_semantic_refinement /\ self.semantic_chunker /\ Len(chunks) > 1

\* what semantic_chunker.split_text does when it is called: it raises, or it
\* returns the groups cut after the sentences of a set of breakpoints
Raises == [raises |-> TRUE, breaks |-> {}]

SemanticOutcomes ==
    {Raises} \cup {[raises |-> FALSE, breaks |-> b] : b \in SUBSET (1..MaxBreak)}

\* Refine with a handler that loses the chunks when split_text raises
RefineLosesChunks(self, chunks, outcome) ==
    IF RefinementRuns(self, chunks)
    THEN IF outcome.raises THEN <<>>
         ELSE ensure_chunk_sizes(self,
                  semantic_split_text(JoinParagraphs(chunks), outcome.breaks), 0)
    ELSE chunks

\* Step 3; outcome is consulted only when Step 3 is entered
Refine(self, chunks, outcome) ==
    IF RefinementRuns(self, chunks) /\ ~outcome.raises
    THEN ensure_chunk_sizes(self,
             semantic_split_text(JoinParagraphs(chunks), outcome.breaks), 0)
    ELSE chunks

\* Step 4: parent_chunks
ParentChunks(self, text) ==
    IF self.use_hierarchy
    THEN LET parent_texts == parent_split_text(self, text)
         IN [i \in 1..Len(parent_texts) |->
                [id |-> <<"parent", i - 1>>, content |-> parent_texts[i],
                 child_indices |-> <<>>]]
    ELSE <<>>

\* parent_index of the child with chunk_index i, counted from 0
\* chunk_metadata = metadata: the caller's dict itself, under a second name
CopyShared(md) == [shared |-> TRUE, dict |-> md]

\* metadata.copy(): a new dict with the entries of md
Copy(md) == [shared |-> FALSE, dict |-> md]

\* the caller's metadata dict after the calls of update() that built the
\* metadata of the documents from number k on: update() changes the dict
\* Copy returned, which is the caller's dict only if the two are shared
RECURSIVE MetadataAfter(_, _, _)
MetadataAfter(metadata, docs, k) ==
    IF k > Len(docs) THEN metadata
    ELSE LET chunk_metadata == Copy(metadata)
         IN MetadataAfter(IF chunk_metadata.shared
                          THEN Update(metadata, docs[k].metadata)
                          ELSE metadata,
                          docs, k + 1)

ParentIndex(i, nparents) == Min(i \div 2, nparents - 1)

\* chunk_type of a child
ChildType(self) == IF self.use_semantic_refinement THEN "semantic" ELSE "recursive"

\* AddChild recording the position of the child counted from 1
AddChildFromOne(parent_chunks, pindex, i) ==
    [parent_chunks EXCEPT ![pindex].child_indices = Append(@, i + 1)]

\* parent_chunks[parent_index]['child_indices'].append(i)
AddChild(parent_chunks, pindex, i) ==
    [parent_chunks EXCEPT ![pindex].child_indices = Append(@, i)]

\* Step 5: the loop over the chunks from chunk number k on (chunk_index k-1);
\* gives the child documents and the parent_chunks with their child_indices
RECURSIVE ChildLoop(_, _, _, _, _, _)
ChildLoop(self, chunks, metadata, k, parent_chunks, docs) ==
    IF k > Len(chunks)
    THEN [documents |-> docs, parent_chunks |-> parent_chunks]
    ELSE LET i  == k - 1
             md == Update(metadata,
                      [chunk_id |-> <<"child", i>>, chunk_index |-> i,
                       total_chunks |-> Len(chunks),
                       token_count |-> count_tokens(chunks[k]),
                       chunk_type |-> ChildType(self)])
             mapped == self.use_hierarchy /\ parent_chunks # <<>>
             pindex == ParentIndex(i, Len(parent_chunks)) + 1
             md2 == IF mapped
                    THEN Update(md, [parent_id |-> parent_chunks[pindex].id])
                    ELSE md
             pcs == IF mapped THEN AddChild(parent_chunks, pindex, i)
                    ELSE parent_chunks
         IN ChildLoop(self, chunks, metadata, k + 1, pcs,
                      Append(docs, [page_content |-> chunks[k], metadata |-> md2]))

\* ParentDocs numbering the parent documents anew, from 1
ParentDocsRenumbered(metadata, parent_chunks) ==
    [p \in 1..Len(parent_chunks) |->
        [page_content |-> parent_chunks[p].content,
         metadata |-> Update(metadata,
            [chunk_id |-> <<"parent", p>>, chunk_type |-> "parent",
             child_indices |-> parent_chunks[p].child_indices,
             token_count |-> count_tokens(parent_chunks[p].content)])]]

\* the parent documents appended when use_hierarchy is set
ParentDocs(metadata, parent_chunks) ==
    [p \in 1..Len(parent_chunks) |->
        [page_content |-> parent_chunks[p].content,
         metadata |-> Update(metadata,
            [chunk_id |-> parent_chunks[p].id, chunk_type |-> "parent",
             child_indices |-> parent_chunks[p].child_indices,
             token_count |-> count_tokens(parent_chunks[p].content)])]]

\* Steps 4 and 5 for the final chunks
Assemble(self, text, chunks, metadata) ==
    LET r == ChildLoop(self, chunks, metadata, 1, ParentChunks(self, text), <<>>)
    IN r.documents \o ParentDocs(metadata, r.parent_chunks)

\* Steps 0 to 2: the normalized text, the initial chunks and the enforced chunks
Enforce(self, transcript_text) ==
    LET text    == preprocess_text(transcript_text)
        initial == split_text(self, text)
    IN [text |-> text, initial |-> initial,
        sized |-> ensure_chunk_sizes(self, initial, 0)]

\* Steps 3 to 5 after the result st of Steps 0 to 2
Finish(self, st, metadata, outcome) ==
    Assemble(self, st.text, Refine(self, st.sized, outcome), metadata)

preprocess_transcript(self, transcript_text, metadata, outcome) ==
    Finish(self, Enforce(self, transcript_text), metadata, outcome)

(***************************************************************************)
(* The state of a BaselineRAGAgent after __init__                          *)
(***************************************************************************)
\* self.vector_store before load_documents has returned
NoStore == [none |-> TRUE, docs |-> {}]

\* no call of _retrieve_context
NoRetrieval ==
    [invoked |-> FALSE, fixed |-> FALSE, searches |-> 0, retrieved_docs |-> <<>>,
     all_docs |-> <<>>, blocks |-> <<>>]

\* the state of the agent's variables before the agent is constructed
RagIdle ==
    /\ rag_pc = "new"
    /\ vector_store = NoStore
    /\ agent = "None"
    /\ load_completed = FALSE
    /\ init_completed = FALSE
    /\ rag_call = [op |-> "none", result |-> "none", ran_agent |-> FALSE]
    /\ retrieval = NoRetrieval

(***************************************************************************)
(* The state of a DatabaseConnection after __init__ (src/db.py)            *)
(***************************************************************************)
\* no call yet
NoDbCall == [op |-> "none", result |-> "none", touched |-> FALSE]

DbIdle ==
    /\ db_connection = "None"
    /\ db_sessions = 0
    /\ db_call = NoDbCall
    /\ db_calls = 0

(***************************************************************************)
(* preprocess_batch, and worker threads that call preprocess_transcript on *)
(* the same preprocessor while the batch runs.  The semantic chunker is    *)
(* deterministic here: chunker fixes what it does for every text.          *)
(***************************************************************************)
Workers == {1, 2}

\* the locals of a call of preprocess_transcript before Step 0
NoLocals == [transcript_text |-> <<>>, chunks |-> <<>>, documents |-> <<>>]

\* the state of the batch variables when no batch is modelled
BatchIdle ==
    /\ transcripts = <<>>
    /\ batch_pc = "idle"
    /\ all_documents = <<>>
    /\ dropped = 0
    /\ chunker = Raises
    /\ th_pc = [w \in Workers |-> "idle"]
    /\ th_local = [w \in Workers |-> NoLocals]

\* transcript['text'] or transcript['metadata'] raises KeyError
Malformed(transcript) ==
    "text" \notin DOMAIN transcript \/ "metadata" \notin DOMAIN transcript

\* the candidates _ensure_chunk_sizes(chunks, depth) discards for being under
\* min_chunk_size
RECURSIVE DroppedIn(_, _, _)
DroppedIn(self, chunks, depth) ==
    IF depth > DepthCap \/ chunks = <<>> THEN 0
    ELSE LET chunk       == Head(chunks)
             token_count == count_tokens(chunk)
         IN (IF token_count < self.min_chunk_size THEN 1
             ELSE IF token_count > self.max_chunk_size
                  THEN DroppedIn(self, SubChunks(self, chunk), depth + 1)
                  ELSE 0)
            + DroppedIn(self, Tail(chunks), depth)

\* the candidates discarded in one call of preprocess_transcript: in Step 2,
\* and in Step 3 when the refinement runs and the chunker returns
DroppedInTranscript(self, transcript_text, outcome) ==
    LET st == Enforce(self, transcript_text)
    IN DroppedIn(self, st.initial, 0)
          + (IF RefinementRuns(self, st.sized) /\ ~outcome.raises
             THEN DroppedIn(self,
                      semantic_split_text(JoinParagraphs(st.sized), outcome.breaks), 0)
             ELSE 0)

\* Extend putting the new documents in front
ExtendFront(all_docs, docs) == docs \o all_docs

\* all_documents.extend(docs)
Extend(all_docs, docs) == all_docs \o docs

\* the for loop of preprocess_batch from transcript number i on
RECURSIVE BatchLoop(_, _, _, _, _)
BatchLoop(self, batch, i, all_docs, outcome) ==
    IF i > Len(batch) THEN all_docs
    ELSE BatchLoop(self, batch, i + 1,
                   Extend(all_docs,
                          preprocess_transcript(self, batch[i].text, batch[i].metadata,
                                                outcome)),
                   outcome)

\* the dicts of the batch after transcript number i was processed
TranscriptAfter(self, batch, i, outcome) ==
    [batch EXCEPT ![i].metadata =
        MetadataAfter(@, preprocess_transcript(self, batch[i].text, @, outcome), 1)]

\* the dicts of the batch after its transcripts 1..n were processed
RECURSIVE BatchAfter(_, _, _, _)
BatchAfter(self, batch, n, outcome) ==
    IF n = 0 THEN batch
    ELSE TranscriptAfter(self, BatchAfter(self, batch, n - 1, outcome), n, outcome)

\* the candidates discarded while the transcripts 1..n of the batch were processed
RECURSIVE DroppedUpTo(_, _, _, _)
DroppedUpTo(self, batch, n, outcome) ==
    IF n = 0 THEN 0
    ELSE DroppedUpTo(self, batch, n - 1, outcome)
            + DroppedInTranscript(self, batch[n].text, outcome)

\* what a batch run reports besides the list of documents it returns:
\* preprocess_batch prints nothing and returns no count
BatchReport == [key \in {} |-> 0]

\* the transcripts of the batches: an empty one, two that are cut into several
\* chunks, and a dict without 'text'
BatchTexts == {<<>>, <<"a", ".", "b">>, <<"b", ".", "a", ".">>}

BatchTranscripts ==
    {[text |-> t, metadata |-> [video_id |-> "v1", title |-> "t1"]] : t \in BatchTexts}
        \cup {[metadata |-> [video_id |-> "v2", title |-> "t2"]]}

\* the preprocessors of the batches
BatchPreprocessors ==
    {[max_chunk_size |-> 2, min_chunk_size |-> 2, chunk_overlap |-> 0,
      use_semantic_refinement |-> sem, use_hierarchy |-> hier,
      semantic_chunker |-> sem, parent_chunk_size |-> ParentChunkSize] :
        sem \in BOOLEAN, hier \in BOOLEAN}

\* the transcript worker w is given: the first and the last of the batch
WorkerIndex(w) == IF w = 1 THEN 1 ELSE Len(transcripts)

WorkerTranscript(w) == IF w = 1 THEN transcripts[1] ELSE transcripts[Len(transcripts)]

BatchInit ==
    /\ pc = "ready"
    /\ preprocessor \in BatchPreprocessors
    /\ arg_text = <<>>
    /\ arg_metadata = <<>>
    /\ documents = <<>>
    /\ norm_text = <<>>
    /\ enforced_chunks = <<>>
    /\ max_depth = 0
    /\ semantic = "skipped"
    /\ normIn = <<>>
    /\ normOut = <<>>
    /\ normPc = "raw"
    /\ RagIdle
    /\ DbIdle
    /\ transcripts \in SeqsUpTo(BatchTranscripts, MaxBatch)
    /\ batch_pc = "call"
    /\ all_documents = <<>>
    /\ dropped = 0
    /\ chunker \in SemanticOutcomes
    /\ th_pc = [w \in Workers |-> IF w <= Len(transcripts) THEN "call" ELSE "idle"]
    /\ th_local = [w \in Workers |-> NoLocals]

\* preprocess_batch(transcripts)
PreprocessBatch ==
    /\ batch_pc = "call"
    /\ LET failing == {i \in 1..Len(transcripts) : Malformed(transcripts[i])}
       IN IF failing = {}
          THEN /\ batch_pc' = "returned"
               /\ all_documents' = BatchLoop(preprocessor, transcripts, 1, <<>>, chunker)
               /\ transcripts' = BatchAfter(preprocessor, transcripts, Len(transcripts),
                                            chunker)
               /\ dropped' = DroppedUpTo(preprocessor, transcripts, Len(transcripts),
                                         chunker)
          ELSE LET first == CHOOSE i \in failing : \A j \in failing : i <= j
               IN /\ batch_pc' = "raised"
                  /\ all_documents' = <<>>
                  /\ dropped' = DroppedUpTo(preprocessor, transcripts, first - 1, chunker)
                  /\ transcripts' = BatchAfter(preprocessor, transcripts, first - 1,
                                               chunker)
    /\ UNCHANGED <<chunker, th_pc, th_local, pvars, nvars, rvars, dvars>>

\* worker w: Steps 0 to 2 of preprocess_transcript
WorkerEnforce(w) ==
    /\ th_pc[w] = "call"
    /\ IF Malformed(WorkerTranscript(w))
       THEN /\ th_pc' = [th_pc EXCEPT ![w] = "raised"]
            /\ UNCHANGED th_local
       ELSE LET st == Enforce(preprocessor, WorkerTranscript(w).text)
            IN /\ th_pc' = [th_pc EXCEPT ![w] = "enforced"]
               /\ th_local' = [th_local EXCEPT ![w] =
                                  [transcript_text |-> st.text, chunks |-> st.sized,
                                   documents |-> <<>>]]
    /\ UNCHANGED <<transcripts, batch_pc, all_documents, dropped, chunker,
                   pvars, nvars, rvars, dvars>>

\* worker w: Step 3
WorkerRefine(w) ==
    /\ th_pc[w] = "enforced"
    /\ th_pc' = [th_pc EXCEPT ![w] = "refined"]
    /\ th_local' = [th_local EXCEPT ![w].chunks = Refine(preprocessor, @, chunker)]
    /\ UNCHANGED <<transcripts, batch_pc, all_documents, dropped, chunker,
                   pvars, nvars, rvars, dvars>>

\* worker w: Steps 4 and 5
WorkerAssemble(w) ==
    /\ th_pc[w] = "refined"
    /\ th_pc' = [th_pc EXCEPT ![w] = "done"]
    /\ th_local' = [th_local EXCEPT ![w].documents =
                       Assemble(preprocessor, th_local[w].transcript_text,
                                th_local[w].chunks, WorkerTranscript(w).metadata)]
    /\ transcripts' = [transcripts EXCEPT ![WorkerIndex(w)].metadata =
                          MetadataAfter(@, th_local'[w].documents, 1)]
    /\ UNCHANGED <<batch_pc, all_documents, dropped, chunker, pvars, nvars, rvars, dvars>>

BatchNext ==
    \/ PreprocessBatch
    \/ \E w \in Workers : WorkerEnforce(w)
    \/ \E w \in Workers : WorkerRefine(w)
    \/ \E w \in Workers : WorkerAssemble(w)

BatchSpec == BatchInit /\ [][BatchNext]_vars

(***************************************************************************)
(* BaselineRAGAgent (src/agents/baseline_rag_agent.py).  The vector store  *)
(* is the set of the documents of its collection; what a similarity search *)
(* returns, and in which order, depends on embeddings and is an input.     *)
(***************************************************************************)
\* the set of the entries of a list
Range(seq) == {seq[i] : i \in 1..Len(seq)}

\* dict.get(key, default)
Get(md, key, default) == IF key \in DOMAIN md THEN md[key] ELSE default

\* a preprocessor with hierarchy, as the loaders of the repository build one
LoaderPreprocessor(use_semantic_refinement) ==
    [max_chunk_size |-> 1, min_chunk_size |-> 1, chunk_overlap |-> 0,
     use_semantic_refinement |-> use_semantic_refinement, use_hierarchy |-> TRUE,
     semantic_chunker |-> FALSE, parent_chunk_size |-> ParentChunkSize]

\* the document lists load_documents is called with: the output of the
\* preprocessor for a transcript, without and with semantic refinement, and a
\* list of documents typed 'child' or not typed at all
DocumentLists ==
    {preprocess_transcript(LoaderPreprocessor(sem), <<"a", "b">>,
                           [video_id |-> "v1", title |-> "t1"], Raises) :
        sem \in BOOLEAN}
    \cup
    {<<[page_content |-> <<"b">>,
        metadata |-> [chunk_type |-> "child", chunk_id |-> <<"child", 1>>,
                      parent_id |-> <<"parent", 0>>, title |-> "t1"]],
       [page_content |-> <<"b", " ">>, metadata |-> [video_id |-> "v2"]],
       [page_content |-> <<"a">>,
        metadata |-> [chunk_type |-> "child", chunk_id |-> <<"child", 0>>,
                      parent_id |-> <<"parent", 9>>, title |-> "t1"]]>>}

\* the lists of n distinct elements of S
DistinctSeqs(S, n) ==
    {q \in [1..n -> S] : \A i, j \in 1..n : q[i] = q[j] => i = j}

\* vector_store.similarity_search(query, k): k documents of the collection, or
\* all of them when there are fewer
SearchResults(store, k) == DistinctSeqs(store.docs, Min(k, Cardinality(store.docs)))

ChunkTypeOf(doc) == Get(doc.metadata, "chunk_type", "child")

\* child_docs and the parent_docs found among the retrieved documents
RetrievedChildren(retrieved_docs) ==
    LET IsChild(doc) == ChunkTypeOf(doc) = "child"
    IN SelectSeq(retrieved_docs, IsChild)

RetrievedParents(retrieved_docs) ==
    LET IsParentDoc(doc) == ChunkTypeOf(doc) = "parent"
    IN SelectSeq(retrieved_docs, IsParentDoc)

\* parent_ids
ParentIds(retrieved_docs) ==
    {doc.metadata.parent_id :
        doc \in {d \in Range(RetrievedChildren(retrieved_docs)) :
                    "parent_id" \in DOMAIN d.metadata}}

\* similarity_search(..., k=1, filter={"chunk_id": parent_id}): the best match
\* among the documents with that chunk_id; nothing when there is none or when
\* the search raises (except: pass)
LookupResults(store, parent_id) ==
    {<<doc>> : doc \in {d \in store.docs :
                          Get(d.metadata, "chunk_id", <<"N/A">>) = parent_id}}
        \cup {<<>>}

\* parent_docs after the lookups of the parent ids in the order given
RECURSIVE ExtendParents(_, _, _)
ExtendParents(parent_docs, order, results) ==
    IF order = <<>> THEN parent_docs
    ELSE ExtendParents(parent_docs \o results[Head(order)], Tail(order), results)

\* Dedup that compares the contents as they are
RECURSIVE UniqueDocsExact(_, _, _, _)
UniqueDocsExact(all_docs, i, seen_content, unique_docs) ==
    IF i > Len(all_docs) THEN unique_docs
    ELSE LET content_hash == all_docs[i].page_content
         IN IF content_hash \notin seen_content
            THEN UniqueDocsExact(all_docs, i + 1, seen_content \cup {content_hash},
                                 Append(unique_docs, all_docs[i]))
            ELSE UniqueDocsExact(all_docs, i + 1, seen_content, unique_docs)

\* the deduplication loop from document number i on; the hash of a content is
\* represented by the stripped content itself
RECURSIVE UniqueDocs(_, _, _, _)
UniqueDocs(all_docs, i, seen_content, unique_docs) ==
    IF i > Len(all_docs) THEN unique_docs
    ELSE LET content_hash == Strip(all_docs[i].page_content)
         IN IF content_hash \notin seen_content
            THEN UniqueDocs(all_docs, i + 1, seen_content \cup {content_hash},
                            Append(unique_docs, all_docs[i]))
            ELSE UniqueDocs(all_docs, i + 1, seen_content, unique_docs)

\* the blocks "Source: {title} | Chunk: {chunk_id}\nContent: {page_content}"
\* that serialized joins with "\n\n"
Serialize(unique_docs) ==
    [i \in 1..Len(unique_docs) |->
        [source |-> Get(unique_docs[i].metadata, "title", "Unknown"),
         chunk |-> Get(unique_docs[i].metadata, "chunk_id", <<"N/A">>),
         content |-> unique_docs[i].page_content]]

\* _retrieve_context on a loaded store, for the result of the first search, the
\* order in which the set parent_ids is iterated and the results of the lookups
retrieve_context(retrieved_docs, order, results) ==
    LET all_docs == RetrievedChildren(retrieved_docs)
                       \o ExtendParents(RetrievedParents(retrieved_docs), order, results)
    IN [invoked |-> TRUE, fixed |-> FALSE, searches |-> 1 + Len(order),
        retrieved_docs |-> retrieved_docs, all_docs |-> all_docs,
        blocks |-> Serialize(UniqueDocs(all_docs, 1, {}, <<>>))]

\* "No documents loaded in vector store."
NoDocumentsLoaded == [NoRetrieval EXCEPT !.invoked = TRUE, !.fixed = TRUE]

\* everything a call _retrieve_context(query, top_k) can do
RetrieveOutcomes(store, top_k) ==
    IF store.none THEN {NoDocumentsLoaded}
    ELSE UNION {
           LET ids == ParentIds(retrieved_docs)
           IN {retrieve_context(retrieved_docs, order, results) :
                  order \in DistinctSeqs(ids, Cardinality(ids)),
                  results \in {f \in [ids -> UNION {LookupResults(store, id) : id \in ids}] :
                                  \A id \in ids : f[id] \in LookupResults(store, id)}}
           : retrieved_docs \in SearchResults(store, top_k)}

\* query takes the agent for missing when the store is missing
AgentMissingByStore(store, ag) == store.none

\* not self.agent
AgentMissing(store, ag) == ag = "None"

\* BaselineRAGAgent(); ok: OpenAIEmbeddings could be built
NewAgent(ok) ==
    /\ rag_pc = "new"
    /\ rag_pc' = IF ok THEN "ready" ELSE "failed"
    /\ UNCHANGED <<vector_store, agent, load_completed, init_completed, rag_call,
                   retrieval, pvars, nvars, bvars, dvars>>

\* load_documents(documents); ok: PGVector.from_documents returned
LoadDocuments(docs, ok) ==
    /\ rag_pc = "ready"
    /\ IF ok
       THEN /\ vector_store' = [none |-> FALSE, docs |-> vector_store.docs \cup Range(docs)]
            /\ load_completed' = TRUE
       ELSE UNCHANGED <<vector_store, load_completed>>
    /\ rag_call' = [op |-> "load_documents", result |-> IF ok THEN "ok" ELSE "raised",
                    ran_agent |-> FALSE]
    /\ retrieval' = NoRetrieval
    /\ UNCHANGED <<rag_pc, agent, init_completed, pvars, nvars, bvars, dvars>>

\* initialize_agent(); ok: the model and the agent executor could be built
InitializeAgent(ok) ==
    /\ rag_pc = "ready"
    /\ IF ok
       THEN /\ agent' = "AgentExecutor"
            /\ init_completed' = TRUE
       ELSE UNCHANGED <<agent, init_completed>>
    /\ rag_call' = [op |-> "initialize_agent", result |-> IF ok THEN "ok" ELSE "raised",
                    ran_agent |-> FALSE]
    /\ retrieval' = NoRetrieval
    /\ UNCHANGED <<rag_pc, vector_store, load_completed, pvars, nvars, bvars, dvars>>

\* _retrieve_context(query, top_k) called directly
RetrieveContext(top_k) ==
    /\ rag_pc = "ready"
    /\ retrieval' \in RetrieveOutcomes(vector_store, top_k)
    /\ rag_call' = [op |-> "_retrieve_context", result |-> "ok", ran_agent |-> FALSE]
    /\ UNCHANGED <<rag_pc, vector_store, agent, load_completed, init_completed,
                   pvars, nvars, bvars, dvars>>

\* query(question); the agent, when it runs, may call its tool retrieve_context
\* (top_k at its default, the largest value of the model)
Query ==
    /\ rag_pc = "ready"
    /\ IF AgentMissing(vector_store, agent)
       THEN /\ rag_call' = [op |-> "query", result |-> "ValueError", ran_agent |-> FALSE]
            /\ retrieval' = NoRetrieval
       ELSE /\ rag_call' = [op |-> "query", result |-> "ok", ran_agent |-> TRUE]
            /\ retrieval' \in {NoRetrieval} \cup RetrieveOutcomes(vector_store, MaxTopK)
    /\ UNCHANGED <<rag_pc, vector_store, agent, load_completed, init_completed,
                   pvars, nvars, bvars, dvars>>

RagInit ==
    /\ RagIdle
    /\ pc = "new"
    /\ preprocessor = <<>>
    /\ arg_text = <<>>
    /\ arg_metadata = <<>>
    /\ documents = <<>>
    /\ norm_text = <<>>
    /\ enforced_chunks = <<>>
    /\ max_depth = 0
    /\ semantic = "skipped"
    /\ normIn = <<>>
    /\ normOut = <<>>
    /\ normPc = "raw"
    /\ BatchIdle
    /\ DbIdle

RagNext ==
    \/ \E ok \in BOOLEAN : NewAgent(ok)
    \/ \E docs \in DocumentLists, ok \in BOOLEAN : LoadDocuments(docs, ok)
    \/ \E ok \in BOOLEAN : InitializeAgent(ok)
    \/ \E top_k \in 1..MaxTopK : RetrieveContext(top_k)
    \/ Query

RagSpec == RagInit /\ [][RagNext]_vars

(***************************************************************************)
(* DatabaseConnection (src/db.py).  Whether psycopg2 can connect, and      *)
(* whether a statement succeeds on an open connection, are inputs.  A      *)
(* closed connection object is truthy, and cursor() on it raises           *)
(* psycopg2.InterfaceError, a psycopg2.Error.                              *)
(***************************************************************************)
\* not self.connection
ConnectionMissing(connection) == connection = "None"

\* connect(); ok: psycopg2.connect returned a connection
Connect(ok) ==
    /\ db_calls < MaxDbCalls
    /\ IF ok
       THEN /\ db_connection' = "open"
            /\ db_sessions' = db_sessions + 1
       ELSE UNCHANGED <<db_connection, db_sessions>>
    /\ db_call' = [op |-> "connect", result |-> IF ok THEN "True" ELSE "False",
                   touched |-> TRUE]
    /\ db_calls' = db_calls + 1
    /\ UNCHANGED <<pvars, nvars, rvars, bvars>>

\* disconnect(): close() on the connection object, which self.connection
\* goes on naming
Disconnect ==
    /\ db_calls < MaxDbCalls
    /\ IF ConnectionMissing(db_connection)
       THEN UNCHANGED <<db_connection, db_sessions>>
       ELSE /\ db_connection' = "closed"
            /\ db_sessions' = IF db_connection = "open" THEN db_sessions - 1
                              ELSE db_sessions
    /\ db_call' = [op |-> "disconnect", result |-> "None",
                   touched |-> db_connection = "open"]
    /\ db_calls' = db_calls + 1
    /\ UNCHANGED <<pvars, nvars, rvars, bvars>>

\* health_check(); dbok: the statements succeed on an open connection
HealthCheck(dbok) ==
    /\ db_calls < MaxDbCalls
    /\ db_call' =
          IF ConnectionMissing(db_connection)
          THEN [op |-> "health_check", result |-> "disconnected", touched |-> FALSE]
          ELSE IF db_connection = "closed"
               THEN [op |-> "health_check", result |-> "unhealthy", touched |-> FALSE]
          ELSE [op |-> "health_check",
                result |-> IF dbok THEN "healthy" ELSE "unhealthy", touched |-> TRUE]
    /\ db_calls' = db_calls + 1
    /\ UNCHANGED <<db_connection, db_sessions, pvars, nvars, rvars, bvars>>

\* what get_schemas, get_tables and get_columns do, all three alike
Introspect(op, dbok) ==
    IF ConnectionMissing(db_connection)
    THEN [op |-> op, result |-> "[]", touched |-> FALSE]
    ELSE IF db_connection = "closed"
         THEN [op |-> op, result |-> "[]", touched |-> FALSE]
    ELSE [op |-> op, result |-> IF dbok THEN "rows" ELSE "[]", touched |-> TRUE]

\* get_schemas(exclude_system)
GetSchemas(dbok) ==
    /\ db_calls < MaxDbCalls
    /\ db_call' = Introspect("get_schemas", dbok)
    /\ db_calls' = db_calls + 1
    /\ UNCHANGED <<db_connection, db_sessions, pvars, nvars, rvars, bvars>>

\* get_tables(schema)
GetTables(dbok) ==
    /\ db_calls < MaxDbCalls
    /\ db_call' = Introspect("get_tables", dbok)
    /\ db_calls' = db_calls + 1
    /\ UNCHANGED <<db_connection, db_sessions, pvars, nvars, rvars, bvars>>

\* get_columns(schema, table)
GetColumns(dbok) ==
    /\ db_calls < MaxDbCalls
    /\ db_call' = Introspect("get_columns", dbok)
    /\ db_calls' = db_calls + 1
    /\ UNCHANGED <<db_connection, db_sessions, pvars, nvars, rvars, bvars>>

DbInit ==
    /\ DbIdle
    /\ pc = "new"
    /\ preprocessor = <<>>
    /\ arg_text = <<>>
    /\ arg_metadata = <<>>
    /\ documents = <<>>
    /\ norm_text = <<>>
    /\ enforced_chunks = <<>>
    /\ max_depth = 0
    /\ semantic = "skipped"
    /\ normIn = <<>>
    /\ normOut = <<>>
    /\ normPc = "raw"
    /\ RagIdle
    /\ BatchIdle

DbNext ==
    \/ \E ok \in BOOLEAN : Connect(ok)
    \/ Disconnect
    \/ \E dbok \in BOOLEAN : HealthCheck(dbok)
    \/ \E dbok \in BOOLEAN : GetSchemas(dbok)
    \/ \E dbok \in BOOLEAN : GetTables(dbok)
    \/ \E dbok \in BOOLEAN : GetColumns(dbok)

DbSpec == DbInit /\ [][DbNext]_vars

(***************************************************************************)
(* Specification of the normalizer alone: a text is normalized once, and   *)
(* the result is normalized again.                                         *)
(***************************************************************************)
RunAlphabet == {"a", " "}
NormAlphabet == {"a", " ", ".", "#", "h", "s"}
TodayAlphabet == {"t", "'", "g", " "}

NormInputs ==
    SeqsUpTo(RunAlphabet, MaxRunLen) \cup SeqsUpTo(NormAlphabet, MaxNormLen)
        \cup SeqsUpTo(TodayAlphabet, MaxTodayLen)

NormInit ==
    /\ normIn \in NormInputs
    /\ normOut = <<>>
    /\ normPc = "raw"
    /\ pc = "new"
    /\ preprocessor = <<>>
    /\ arg_text = <<>>
    /\ arg_metadata = <<>>
    /\ documents = <<>>
    /\ norm_text = <<>>
    /\ enforced_chunks = <<>>
    /\ max_depth = 0
    /\ semantic = "skipped"
    /\ RagIdle
    /\ BatchIdle
    /\ DbIdle

Normalize ==
    /\ normPc = "raw"
    /\ normOut' = preprocess_text(normIn)
    /\ normPc' = "once"
    /\ UNCHANGED <<normIn, pvars, rvars, bvars, dvars>>

Renormalize ==
    /\ normPc = "once"
    /\ normOut' = preprocess_text(normOut)
    /\ normPc' = "twice"
    /\ UNCHANGED <<normIn, pvars, rvars, bvars, dvars>>

NormNext == Normalize \/ Renormalize

NormSpec == NormInit /\ [][NormNext]_vars

(***************************************************************************)
(* Specification of the pipeline: a preprocessor is constructed and        *)
(* preprocess_transcript is called on one transcript.                      *)
(***************************************************************************)
\* the transcripts: texts of one-token characters, shorter texts with the
\* two-token letter, short texts with years, the words of MaxPlainLen
\* letters (longer than the budget of the recursive splitter), and the texts
\* of MaxSentences short sentences
TextAlphabet == {"a", " ", "."}
WideAlphabet == {"a", " ", "U"}
YearAlphabet == {"y", "."}
PlainAlphabet == {"a", "b"}
SentenceWords == {<<".">>, <<"a", ".">>}

Transcripts ==
    SeqsUpTo(TextAlphabet, MaxTextLen) \cup SeqsUpTo(WideAlphabet, MaxWideLen)
        \cup SeqsUpTo(YearAlphabet, MaxYearLen)
        \cup [1..MaxPlainLen -> PlainAlphabet]
        \cup {JoinSpace(ws) : ws \in [1..MaxSentences -> SentenceWords]}

\* the metadata dicts of the callers: the usual keys, and a dict that also has
\* keys the assembler sets itself
Metadatas ==
    {[video_id |-> "v1", title |-> "t1"],
     [video_id |-> "v1", title |-> "t1", url |-> "u1", timestamp |-> "ts1",
      token_count |-> 99, chunk_type |-> "parent"]}

Init ==
    /\ pc = "new"
    /\ preprocessor = <<>>
    /\ arg_text \in Transcripts
    /\ arg_metadata = <<>>
    /\ documents = <<>>
    /\ norm_text = <<>>
    /\ enforced_chunks = <<>>
    /\ max_depth = 0
    /\ semantic = "skipped"
    /\ normIn = <<>>
    /\ normOut = <<>>
    /\ normPc = "raw"
    /\ RagIdle
    /\ BatchIdle
    /\ DbIdle

\* TextSplitter.__init__ raises ValueError when chunk_overlap > chunk_size
SplitterRejects(chunk_size, chunk_overlap) == chunk_overlap > chunk_size

\* __init__ raises: one of the two splitters rejects its arguments
InitRaises(max_chunk_size, min_chunk_size, chunk_overlap) ==
    \/ SplitterRejects(tokens_to_chars(max_chunk_size), tokens_to_chars(chunk_overlap))
    \/ SplitterRejects(ParentChunkSize, chunk_overlap)

\* __init__; available: SEMANTIC_CHUNKER_AVAILABLE
Construct(max_chunk_size, min_chunk_size, chunk_overlap, use_semantic_refinement, use_hierarchy, available) ==
    /\ pc = "new"
    /\ preprocessor' = [max_chunk_size |-> max_chunk_size,
                        min_chunk_size |-> min_chunk_size,
                        chunk_overlap |-> chunk_overlap,
                        use_semantic_refinement |-> use_semantic_refinement,
                        use_hierarchy |-> use_hierarchy,
                        semantic_chunker |-> use_semantic_refinement /\ available,
                        parent_chunk_size |-> ParentChunkSize]
    /\ pc' = IF InitRaises(max_chunk_size, min_chunk_size, chunk_overlap)
             THEN "rejected" ELSE "ready"
    /\ UNCHANGED <<arg_text, arg_metadata, documents, norm_text, enforced_chunks,
                   max_depth, semantic, nvars, rvars, bvars, dvars>>

\* the outcomes the semantic chunker can have in a call of
\* preprocess_transcript: none when Step 3 is not entered
CallOutcomes(self, chunks) ==
    IF RefinementRuns(self, chunks) THEN SemanticOutcomes ELSE {Raises}

\* preprocess_transcript(transcript_text, metadata) with the transcript
\* arg_text and a metadata dict of the caller
PreprocessTranscript ==
    /\ pc = "ready"
    /\ LET st == Enforce(preprocessor, arg_text)
       IN IF preprocessor.use_hierarchy /\ ParentSplitHangs(preprocessor, st.text)
          THEN /\ pc' = "hung"
               /\ UNCHANGED <<arg_metadata, norm_text, enforced_chunks, max_depth,
                              semantic, documents>>
          ELSE /\ pc' = "done"
               /\ norm_text' = st.text
               /\ enforced_chunks' = st.sized
               /\ max_depth' = EnsureDepth(preprocessor, st.initial, 0)
               /\ \E outcome \in CallOutcomes(preprocessor, st.sized) :
                     /\ semantic' = IF ~RefinementRuns(preprocessor, st.sized)
                                    THEN "skipped"
                                    ELSE IF outcome.raises THEN "raised" ELSE "ok"
                     /\ LET chunks == Refine(preprocessor, st.sized, outcome)
                        IN \E metadata \in Metadatas :
                              /\ documents' = Assemble(preprocessor, st.text, chunks,
                                                       metadata)
                              /\ arg_metadata' = MetadataAfter(metadata, documents', 1)
    /\ UNCHANGED <<preprocessor, arg_text, nvars, rvars, bvars, dvars>>

Next ==
    \/ \E max_chunk_size \in 1..MaxSize, min_chunk_size \in 0..MaxSize,
          chunk_overlap \in 0..MaxSize, use_semantic_refinement \in BOOLEAN,
          use_hierarchy \in BOOLEAN, available \in BOOLEAN :
          Construct(max_chunk_size, min_chunk_size, chunk_overlap,
                    use_semantic_refinement, use_hierarchy, available)
    \/ PreprocessTranscript

Spec == Init /\ [][Next]_vars

(***************************************************************************)
(* Properties                                                              *)
(***************************************************************************)
Done == pc = "done"

DocIndices == 1..Len(documents)

IsParent(d) == d.metadata.chunk_type = "parent"

\* positions of the child and of the parent documents in the returned list
ChildDocs == {k \in DocIndices : ~IsParent(documents[k])}
ParentDocSet == {k \in DocIndices : IsParent(documents[k])}

\* the page_content of the child documents, in order
ChildContents ==
    [k \in 1..Cardinality(ChildDocs) |-> documents[k].page_content]

InRange(text) ==
    /\ preprocessor.min_chunk_size <= count_tokens(text)
    /\ count_tokens(text) <= preprocessor.max_chunk_size

\* a occurs in b as a contiguous run of characters
IsSubstring(a, b) ==
    \E i \in 0..(Len(b) - Len(a)) : \A k \in 1..Len(a) : b[i + k] = a[k]

\* C1: every non-parent document returned by preprocess_transcript has a token
\* count between min_chunk_size and max_chunk_size.
C1_SizeInvariant ==
    Done => \A k \in ChildDocs : InRange(documents[k].page_content)

\* C2: _ensure_chunk_sizes returns, its depth stays within 0..11, and every
\* candidate ends as a valid chunk or as a drop: the chunks it returns are all
\* within [min_chunk_size, max_chunk_size].
C2_EnforcerOutcome ==
    Done => /\ max_depth \in 0..(DepthCap + 1)
            /\ \A k \in 1..Len(enforced_chunks) : InRange(enforced_chunks[k])

\* C3: the content of every non-parent document is a contiguous substring of
\* the normalized transcript text.
C3_ContentContainment ==
    Done => \A k \in ChildDocs : IsSubstring(documents[k].page_content, norm_text)

\* C4: when the semantic chunker raises, the child contents emitted are the
\* recursive+enforced chunks computed before refinement, in the same order.
C4_RefinementFallback ==
    (Done /\ semantic = "raised") => ChildContents = enforced_chunks

C4_Witness ==
    Done /\ semantic = "raised" /\ Len(enforced_chunks) > 1 /\ ChildDocs # {}

\* C5: with use_hierarchy, every child document carries a parent_id that is the
\* chunk_id of a parent document of the same returned list.
C5_HierarchyCoverage ==
    (Done /\ preprocessor.use_hierarchy) =>
        \A k \in ChildDocs :
            /\ "parent_id" \in DOMAIN documents[k].metadata
            /\ \E p \in ParentDocSet :
                  documents[p].metadata.chunk_id = documents[k].metadata.parent_id

C5_Witness ==
    /\ Done /\ preprocessor.use_hierarchy
    /\ Cardinality(ChildDocs) >= 3 /\ Cardinality(ParentDocSet) >= 2

NoDuplicates(seq) == \A i, j \in 1..Len(seq) : seq[i] = seq[j] => i = j

\* C6: with use_hierarchy, child i has parent_id p exactly when i is in the
\* child_indices of parent p; the child_indices of distinct parents are
\* disjoint, have no duplicates, and together are exactly 0..n-1.
C6_HierarchyIndexConsistency ==
    (Done /\ preprocessor.use_hierarchy) =>
        /\ \A k \in ChildDocs, p \in ParentDocSet :
              ("parent_id" \in DOMAIN documents[k].metadata
                 /\ documents[k].metadata.parent_id = documents[p].metadata.chunk_id)
              <=> documents[k].metadata.chunk_index
                     \in Range(documents[p].metadata.child_indices)
        /\ \A p, q \in ParentDocSet :
              p # q => Range(documents[p].metadata.child_indices)
                          \cap Range(documents[q].metadata.child_indices) = {}
        /\ \A p \in ParentDocSet : NoDuplicates(documents[p].metadata.child_indices)
        /\ UNION {Range(documents[p].metadata.child_indices) : p \in ParentDocSet}
              = 0..(Cardinality(ChildDocs) - 1)

C6_Witness ==
    /\ Done /\ preprocessor.use_hierarchy
    /\ \E p, q \in ParentDocSet :
          /\ p # q
          /\ Len(documents[p].metadata.child_indices) >= 2
          /\ Len(documents[q].metadata.child_indices) >= 1

\* C7: whenever a child document has a parent_id, the content of the parent it
\* names contains the child's content.
C7_ParentContainment ==
    Done => \A k \in ChildDocs, p \in ParentDocSet :
               ("parent_id" \in DOMAIN documents[k].metadata
                  /\ documents[k].metadata.parent_id = documents[p].metadata.chunk_id)
               => IsSubstring(documents[k].page_content, documents[p].page_content)

\* C8: normalizing a normalized text returns it unchanged.
C8_NormalizationIdempotent ==
    normPc = "twice" => normOut = preprocess_text(normIn)

\* C9: a transcript whose normalized text has fewer than min_chunk_size tokens
\* yields no document, whatever use_semantic_refinement and use_hierarchy are.
C9_UndersizedYieldsNothing ==
    (Done /\ count_tokens(norm_text) < preprocessor.min_chunk_size)
        => documents = <<>>

\* C10: no preprocessor exists, and no call runs, with
\* max_chunk_size < min_chunk_size: __init__ rejects such a configuration.
C10_ConfigurationValidated ==
    pc \in {"ready", "done"} =>
        preprocessor.max_chunk_size >= preprocessor.min_chunk_size

\* text has c at index i
OccursAt(c, text, i) ==
    /\ i + Len(c) - 1 <= Len(text)
    /\ \A j \in 1..Len(c) : text[i + j - 1] = c[j]

\* the contents from number k on occur in text at non-decreasing indices >= from
RECURSIVE OccurInOrder(_, _, _, _)
OccurInOrder(contents, k, text, from) ==
    IF k > Len(contents) THEN TRUE
    ELSE \E i \in from..(Len(text) + 1) :
            /\ OccursAt(contents[k], text, i)
            /\ OccurInOrder(contents, k + 1, text, i)

\* C13: the chunk_index values of the n child documents are 0..n-1 in output
\* order without repeats, every child has total_chunks = n, and the children
\* follow the order of their text in the normalized transcript.
C13_IndexUniquenessAndOrder ==
    Done => LET n == Cardinality(ChildDocs)
            IN /\ ChildDocs = 1..n
               /\ \A k \in 1..n :
                     /\ documents[k].metadata.chunk_index = k - 1
                     /\ documents[k].metadata.total_chunks = n
               /\ OccurInOrder(ChildContents, 1, norm_text, 1)

\* C17: every size calculation uses one token-counting function, so that the
\* token_count recorded for a parent document is at most parent_chunk_size.
C17_TokenizerConsistency ==
    Done => \A p \in ParentDocSet :
               documents[p].metadata.token_count <= preprocessor.parent_chunk_size

\* the metadata keys the assembler sets itself on a child and on a parent
ChildKeys == {"chunk_id", "chunk_index", "total_chunks", "token_count", "chunk_type",
              "parent_id"}
ParentKeys == {"chunk_id", "chunk_type", "child_indices", "token_count"}

AssemblerKeys(d) == IF IsParent(d) THEN ParentKeys ELSE ChildKeys

\* C18: every document, child or parent, carries a token_count equal to the
\* token count of its own content, a chunk_type, a chunk_id, and every key of
\* the input metadata with the input's value, except the keys the assembler
\* sets itself.
C18_SelfDescribingRecords ==
    Done => \A k \in DocIndices :
               LET d == documents[k]
               IN /\ {"token_count", "chunk_type", "chunk_id"} \subseteq DOMAIN d.metadata
                  /\ d.metadata.token_count = count_tokens(d.page_content)
                  /\ \A key \in DOMAIN arg_metadata :
                        /\ key \in DOMAIN d.metadata
                        /\ key \notin AssemblerKeys(d)
                              => d.metadata[key] = arg_metadata[key]

C18_Witness ==
    /\ Done
    /\ {"url", "token_count"} \subseteq DOMAIN arg_metadata
    /\ ChildDocs # {} /\ ParentDocSet # {}
    /\ \E k \in DocIndices : documents[k].metadata.token_count # arg_metadata.token_count

\* the chunks Step 1 handed to the enforcer
InitialChunks == split_text(preprocessor, norm_text)

\* what _ensure_chunk_sizes returns for the single candidate c
EnsureOne(c) == ensure_chunk_sizes(preprocessor, <<c>>, 0)

\* C20: _ensure_chunk_sizes drops every candidate under min_chunk_size, returns
\* every candidate within [min_chunk_size, max_chunk_size] unchanged, keeps
\* the order of the candidates, and returns a list of in-range chunks as it is.
C20_EnforcerPolicy ==
    Done =>
        /\ enforced_chunks
              = Flatten([k \in 1..Len(InitialChunks) |-> EnsureOne(InitialChunks[k])])
        /\ \A k \in 1..Len(InitialChunks) :
              /\ count_tokens(InitialChunks[k]) < preprocessor.min_chunk_size
                    => EnsureOne(InitialChunks[k]) = <<>>
              /\ InRange(InitialChunks[k])
                    => EnsureOne(InitialChunks[k]) = <<InitialChunks[k]>>
        /\ (\A k \in 1..Len(InitialChunks) : InRange(InitialChunks[k]))
              => enforced_chunks = InitialChunks
        /\ \A k \in 1..Len(enforced_chunks) :
              count_tokens(enforced_chunks[k]) >= preprocessor.min_chunk_size

\* _retrieve_context ran on a loaded store in the last call
Retrieved == retrieval.invoked /\ ~retrieval.fixed

\* some block of the returned string has the content of doc, whitespace at
\* its ends aside
HasBlock(doc) ==
    \E n \in 1..Len(retrieval.blocks) :
        Strip(retrieval.blocks[n].content) = Strip(doc.page_content)

\* C14: every chunk the top_k search returned appears as a block of the string
\* _retrieve_context returns (unless an earlier block has its content), also
\* the chunks typed 'recursive' or 'semantic' by the preprocessor; and the
\* parent that a retrieved chunk names by parent_id is included when the
\* collection has it.
C14_RetrievalCompleteness ==
    Retrieved =>
        \A i \in 1..Len(retrieval.retrieved_docs) :
            LET doc == retrieval.retrieved_docs[i]
            IN /\ HasBlock(doc)
               /\ "parent_id" \in DOMAIN doc.metadata
                     => \A parent \in vector_store.docs :
                           Get(parent.metadata, "chunk_id", <<"N/A">>)
                                 = doc.metadata.parent_id
                              => \E n \in 1..Len(retrieval.blocks) :
                                    retrieval.blocks[n].chunk = doc.metadata.parent_id

\* the positions of all_docs whose stripped content no earlier position has
FirstOccurrences(all_docs) ==
    {i \in 1..Len(all_docs) :
        \A j \in 1..(i - 1) :
            Strip(all_docs[j].page_content) # Strip(all_docs[i].page_content)}

\* the n-th smallest element of a set of numbers
Nth(S, n) == CHOOSE x \in S : Cardinality({y \in S : y < x}) = n - 1

\* C15: no two blocks of the output have the same stripped content; of the
\* documents with equal content the first one is kept (the retrieved children
\* in search order come first, then the parents); the kept blocks keep that
\* order.
C15_RetrievalDedupOrder ==
    Retrieved =>
        LET all_docs == retrieval.all_docs
            blocks   == retrieval.blocks
            first    == FirstOccurrences(all_docs)
            children == RetrievedChildren(retrieval.retrieved_docs)
        IN /\ \A m, n \in 1..Len(blocks) :
                 Strip(blocks[m].content) = Strip(blocks[n].content) => m = n
           /\ Len(blocks) = Cardinality(first)
           /\ \A n \in 1..Len(blocks) :
                 blocks[n] = Serialize(<<all_docs[Nth(first, n)]>>)[1]
           /\ Len(children) <= Len(all_docs)
           /\ SubSeq(all_docs, 1, Len(children)) = children

C15_Witness ==
    /\ Retrieved
    /\ Len(retrieval.blocks) >= 2
    /\ \E i, j \in 1..Len(retrieval.all_docs) :
          /\ i < j
          /\ retrieval.all_docs[i].page_content # retrieval.all_docs[j].page_content
          /\ Strip(retrieval.all_docs[i].page_content)
                = Strip(retrieval.all_docs[j].page_content)

\* C16: query raises ValueError and runs no agent as long as no call of
\* initialize_agent has completed; _retrieve_context returns the fixed text
\* without any search as long as no call of load_documents has completed.
C16_Lifecycle ==
    /\ (rag_call.op = "query" /\ ~init_completed)
          => rag_call.result = "ValueError" /\ ~rag_call.ran_agent
    /\ (retrieval.invoked /\ ~load_completed)
          => retrieval.fixed /\ retrieval.searches = 0

C16_Witness ==
    /\ rag_call.op = "query" /\ ~init_completed /\ load_completed
    /\ rag_call.result = "ValueError"

\* the documents of the transcripts of the batch, each processed on its own
\* (none for a transcript whose processing fails), in input order
PerTranscript ==
    [i \in 1..Len(transcripts) |->
        IF Malformed(transcripts[i]) THEN <<>>
        ELSE preprocess_transcript(preprocessor, transcripts[i].text,
                                   transcripts[i].metadata, chunker)]

\* C11: when processing one transcript of a batch raises, preprocess_batch
\* still returns the documents of every other transcript, and the failing
\* transcript contributes none.
C11_BatchFailureIsolation ==
    batch_pc \in {"returned", "raised"} =>
        /\ batch_pc = "returned"
        /\ all_documents = Flatten(PerTranscript)

\* C12: a batch run reports the counts of transcripts in, chunks out and
\* chunks dropped, and every candidate the enforcer discarded for being under
\* min_chunk_size is counted in the reported drop count.
C12_DropAuditability ==
    (batch_pc = "returned" /\ dropped > 0) =>
        /\ {"transcripts_in", "chunks_out", "chunks_dropped"} \subseteq DOMAIN BatchReport
        /\ BatchReport.chunks_dropped = dropped

\* C19: the documents a worker gets for its transcript are those the
\* preprocessor produces for that transcript alone, whatever the batch and
\* the other worker did before or do meanwhile; and preprocess_batch returns
\* the concatenation, in input order, of the per-transcript results.
C19_CrossTranscriptIndependence ==
    /\ \A w \in Workers :
          th_pc[w] = "done" =>
             th_local[w].documents
                = preprocess_transcript(preprocessor, WorkerTranscript(w).text,
                                        WorkerTranscript(w).metadata, chunker)
    /\ batch_pc = "returned" => all_documents = Flatten(PerTranscript)

C19_Witness ==
    /\ batch_pc = "returned" /\ Len(transcripts) = 2
    /\ PerTranscript[1] # <<>> /\ PerTranscript[2] # <<>>
    /\ PerTranscript[1] # PerTranscript[2]
    /\ th_pc[1] = "done" /\ th_pc[2] = "enforced"

\* the oversized candidates _ensure_chunk_sizes(chunks, depth) meets in its
\* loops, those of its recursive calls included
RECURSIVE OversizedCandidates(_, _, _)
OversizedCandidates(self, chunks, depth) ==
    IF depth > DepthCap THEN {}
    ELSE LET over == {chunks[i] : i \in {j \in 1..Len(chunks) :
                         /\ count_tokens(chunks[j]) >= self.min_chunk_size
                         /\ count_tokens(chunks[j]) > self.max_chunk_size}}
         IN over \cup UNION {OversizedCandidates(self, SubChunks(self, c), depth + 1) :
                               c \in over}

\* C21: for an oversized candidate the splitter returns unchanged, the enforcer
\* recurses on its two halves cut at len // 2, whose concatenation is the
\* candidate and each of which is strictly shorter than it; otherwise it
\* recurses on the pieces of the splitter.
C21_ForcedSplitFallback ==
    Done => \A c \in OversizedCandidates(preprocessor, InitialChunks, 0) :
               LET pieces == split_text(preprocessor, c)
                   sub    == SubChunks(preprocessor, c)
               IN IF pieces = <<c>>
                  THEN /\ Len(sub) = 2
                       /\ Len(sub[1]) = Len(c) \div 2
                       /\ sub[1] \o sub[2] = c
                       /\ Len(sub[1]) < Len(c) /\ Len(sub[2]) < Len(c)
                  ELSE sub = pieces

\* the chunk_size and the chunk_overlap __init__ hands to the recursive
\* splitter, which measures them with its length_function, _count_tokens
SplitterChunkSize(self) == tokens_to_chars(self.max_chunk_size)
SplitterChunkOverlap(self) == tokens_to_chars(self.chunk_overlap)

\* a separator other than the empty one occurs inside the piece
SeparatorApplies(piece) ==
    \E k \in 1..Len(Separators) :
        /\ Separators[k] # <<>>
        /\ \E i \in 2..Len(piece) : MatchAt(piece, i, Separators[k], FALSE)

\* C22: measured in tokens, the budget of the recursive splitter is
\* max_chunk_size and its overlap is chunk_overlap, and no piece it returns
\* that a separator could cut has more than max_chunk_size tokens.
C22_SplitterBudget ==
    Done => /\ SplitterChunkSize(preprocessor) = preprocessor.max_chunk_size
            /\ SplitterChunkOverlap(preprocessor) = preprocessor.chunk_overlap
            /\ \A k \in 1..Len(InitialChunks) :
                  SeparatorApplies(InitialChunks[k])
                     => count_tokens(InitialChunks[k]) <= preprocessor.max_chunk_size

\* the number of children of max_chunk_size tokens that fit in one parent span
ChildrenPerParent(self) == self.parent_chunk_size \div self.max_chunk_size

\* C23: with P >= 1 parents, child i has the parent of index
\* min(i // ratio, P - 1), ratio being the number of children that fit in one
\* parent span for the configured sizes, and the parent index does not
\* decrease with i.
C23_ParentMappingFormula ==
    (Done /\ preprocessor.use_hierarchy /\ ParentDocSet # {}) =>
        LET P == Cardinality(ParentDocSet)
        IN /\ \A k \in ChildDocs :
                 documents[k].metadata.parent_id
                    = <<"parent", Min((k - 1) \div ChildrenPerParent(preprocessor), P - 1)>>
           /\ \A k, l \in ChildDocs :
                 k <= l => documents[k].metadata.parent_id[2]
                              <= documents[l].metadata.parent_id[2]

\* the words of a text of letters and whitespace, in order
RECURSIVE WordsOf(_)
WordsOf(s) ==
    LET t == LStrip(s)
    IN IF t = <<>> THEN <<>>
       ELSE LET e == RunEnd(t, 1, WordChars)
            IN <<SubSeq(t, 1, e)>> \o WordsOf(SubSeq(t, e + 1, Len(t)))

\* the number of copies of the word w at the head of words
RECURSIVE RunLength(_, _)
RunLength(words, w) ==
    IF words # <<>> /\ Head(words) = w THEN 1 + RunLength(Tail(words), w) ELSE 0

\* words with every maximal run of three or more equal words reduced to one
RECURSIVE RunsCollapsed(_)
RunsCollapsed(words) ==
    IF words = <<>> THEN <<>>
    ELSE LET n == RunLength(words, Head(words))
         IN (IF n >= 3 THEN <<Head(words)>> ELSE SubSeq(words, 1, n))
               \o RunsCollapsed(SubSeq(words, n + 1, Len(words)))

\* C24: in the output of _preprocess_text every run of three or more
\* repetitions of one word of the input is a single occurrence of it, and no
\* other word is removed.
C24_RepetitionCollapse ==
    (normPc = "once" /\ Range(normIn) \subseteq RunAlphabet) =>
        WordsOf(normOut) = RunsCollapsed(WordsOf(normIn))

\* s ends with one of the literals lits, in any case
EndsWithLit(s, lits) ==
    \E lit \in lits : Len(lit) <= Len(s) /\ MatchAt(s, Len(s) - Len(lit) + 1, lit, TRUE)

IsSuffix(a, b) == Len(a) <= Len(b) /\ SubSeq(b, Len(b) - Len(a) + 1, Len(b)) = a

\* the text after the outro literal at index p is content of its own: it
\* starts a new word, and the normalizer leaves it as it is, spaces at its
\* ends aside
ContentAfter(s, p) ==
    LET rest == SubSeq(s, p + 1, Len(s))
    IN /\ rest # <<>> /\ IsSpace(Head(rest))
       /\ Strip(rest) # <<>>
       /\ preprocess_text(rest) = Strip(rest)

\* C25: _preprocess_text removes a leading intro of each listed form, removes
\* an outro phrase that ends the text, and leaves the content that follows a
\* mid-text occurrence of an outro word.
C25_IntroOutroRemoval ==
    normPc = "once" =>
        /\ ((\E lit \in IntroLits : MatchAt(normIn, 1, lit, TRUE))
               /\ FirstAt(normIn, 2, SentenceEnds) # 0)
              => ~(\E lit \in IntroLits : MatchAt(normOut, 1, lit, TRUE))
        /\ (MatchAt(normIn, 1, TodayLit, TRUE)
               /\ FirstLitAt(normIn, Len(TodayLit) + 1, GoingLits) # 0)
              => ~MatchAt(normOut, 1, TodayLit, TRUE)
        /\ EndsWithLit(normIn, OutroLits) => ~EndsWithLit(normOut, OutroLits)
        /\ \A p \in 1..Len(normIn) :
              ((\E lit \in OutroLits : MatchAt(normIn, p, lit, TRUE))
                  /\ ContentAfter(normIn, p))
                 => IsSuffix(Strip(SubSeq(normIn, p + 1, Len(normIn))), normOut)

\* the number of documents the transcripts 1..n of the batch contributed
RECURSIVE DocsUpTo(_)
DocsUpTo(n) == IF n = 0 THEN 0 ELSE DocsUpTo(n - 1) + Len(PerTranscript[n])

\* the transcript document number k of all_documents was built from
TranscriptOf(k) ==
    CHOOSE i \in 1..Len(transcripts) : DocsUpTo(i - 1) < k /\ k <= DocsUpTo(i)

BatchDocIndices == 1..Len(all_documents)

\* C26: in the list preprocess_batch returns with use_hierarchy, each chunk_id
\* identifies exactly one document, and the parent_id of each child matches
\* exactly one parent document, which was built from the child's transcript.
C26_BatchIdentifierUniqueness ==
    (batch_pc = "returned" /\ preprocessor.use_hierarchy) =>
        /\ \A k, l \in BatchDocIndices :
              all_documents[k].metadata.chunk_id = all_documents[l].metadata.chunk_id
                 => k = l
        /\ \A k \in BatchDocIndices :
              "parent_id" \in DOMAIN all_documents[k].metadata =>
                 LET matching == {p \in BatchDocIndices :
                                    /\ IsParent(all_documents[p])
                                    /\ all_documents[p].metadata.chunk_id
                                          = all_documents[k].metadata.parent_id}
                 IN /\ Cardinality(matching) = 1
                    /\ \A p \in matching : TranscriptOf(p) = TranscriptOf(k)

\* C27: a child document is labelled 'semantic' only when its content comes
\* from a semantic refinement that succeeded; when the chunker is unavailable,
\* skipped or raised, the children are labelled 'recursive'.
C27_TruthfulChunkType ==
    Done => \A k \in ChildDocs :
               /\ documents[k].metadata.chunk_type = "semantic" => semantic = "ok"
               /\ semantic # "ok" => documents[k].metadata.chunk_type = "recursive"

\* C28: whenever the chunk sequence computed before refinement is not empty,
\* preprocess_transcript emits at least one child, also when the semantic
\* chunker succeeds and the second enforcement pass drops or re-splits all of
\* its segments.
C28_RefinementNeverEmpties ==
    (Done /\ enforced_chunks # <<>>) => ChildDocs # {}

\* the configuration fields of a preprocessor
ConfigFields ==
    {"max_chunk_size", "min_chunk_size", "chunk_overlap", "use_semantic_refinement",
     "use_hierarchy", "parent_chunk_size"}

Config(self) == [f \in ConfigFields |-> self[f]]

\* C29: no step of preprocess_batch or of a call of preprocess_transcript
\* changes a metadata dict of the caller (same keys, same values) or a
\* configuration field of the preprocessor.
C29_Frame ==
    [][/\ transcripts' = transcripts
       /\ Config(preprocessor') = Config(preprocessor)]_vars

C29_Witness ==
    /\ batch_pc = "returned" /\ preprocessor.use_hierarchy
    /\ \E w \in Workers : th_pc[w] = "done" /\ th_local[w].documents # <<>>
    /\ \E k \in 1..Len(all_documents) : IsParent(all_documents[k])
    /\ \E k \in 1..Len(all_documents) : "parent_id" \in DOMAIN all_documents[k].metadata
    /\ \A i \in 1..Len(transcripts) :
          DOMAIN transcripts[i].metadata = {"video_id", "title"}

\* the object holds no open connection: it never connected, or every connect
\* failed, or disconnect was called after the last successful connect
NoOpenConnection == db_connection # "open"

\* C30: whenever a DatabaseConnection has no open connection, health_check
\* returns the status 'disconnected' and get_schemas, get_tables and
\* get_columns return an empty list, without touching the database.
C30_ConnectionLifecycle ==
    NoOpenConnection =>
        /\ db_call.op = "health_check"
              => db_call.result = "disconnected" /\ ~db_call.touched
        /\ db_call.op \in {"get_schemas", "get_tables", "get_columns"}
              => db_call.result = "[]" /\ ~db_call.touched

====
